---- MODULE Spec2Model ----
(***************************************************************************)
(* Model of the VINSA 1060 Plus user-space tablet driver                   *)
(* (driver/src/main.rs, physical_device.rs, virtual_device.rs, config.rs). *)
(*                                                                         *)
(* The driver thread runs main_loop: while the termination flag is clear   *)
(* it runs one iteration of the closure, which either reads one report     *)
(* from the physical device and dispatches it, or tries to discover and    *)
(* open the device.  A second thread replaces the shared AppConfig.        *)
(*                                                                         *)
(* f32 values are modelled exactly: a value is a record [m, e] standing    *)
(* for m * 2^e with 2^23 <= |m| < 2^24 (or m = 0, e = 0), and every        *)
(* operation rounds to nearest, ties to even, as IEEE 754 binary32 does.   *)
(* The sign of zero, subnormals, infinities and NaN are outside the range  *)
(* the driver's values reach and are not represented.                      *)
(***************************************************************************)
EXTENDS Integers, Sequences, FiniteSets, TLC

VARIABLES
    pc,                               \* position of the driver thread in main_loop
    flag,                             \* main_loop: the AtomicBool set by SIGINT/SIGTERM/SIGQUIT
    physical_device,                  \* main: Option<PhysicalDevice>
    data,                             \* RawDataReader.data, the 64-byte buffer
    config,                           \* Arc<RwLock<AppConfig>>: the shared snapshot
    rw,                               \* the RwLock of config and what its two users hold
    tablet_last_raw_pressed_buttons,  \* DeviceDispatcher fields
    pen_last_raw_pressed_button,
    last_pressed_media_button,
    was_touching,
    last_x,
    last_y,
    out,                              \* events written to the virtual devices by the last dispatch + syn
    io,                               \* what the last iteration of the closure did (stderr/stdout, sleep)
    hist                              \* per completed dispatch: report, config, events, state after

vars == << pc, flag, physical_device, data, config, rw,
           tablet_last_raw_pressed_buttons, pen_last_raw_pressed_button,
           last_pressed_media_button, was_touching, last_x, last_y,
           out, io, hist >>

----------------------------------------------------------------------------
(* Bounds of the model *)

\* number of reports dispatched in one behaviour of a dispatcher specification
MaxSamples == 4

\* number of reports dispatched in one behaviour of the driver-loop specification
MaxLoopSamples == 2

\* number of reports dispatched in one behaviour of the smoothing specification
MaxRepeats == 14

----------------------------------------------------------------------------
(* Integer helpers: Rust's fixed-width arithmetic *)

RECURSIVE Pow2(_)
Pow2(n) == IF n <= 0 THEN 1 ELSE 2 * Pow2(n - 1)

RECURSIVE BitLen(_)
\* number of significant bits of n >= 0
BitLen(n) == IF n = 0 THEN 0 ELSE 1 + BitLen(n \div 2)

Abs(n) == IF n < 0 THEN -n ELSE n

Sign(n) == IF n < 0 THEN -1 ELSE 1

\* i32 `/`: the quotient truncated toward zero
TruncDiv(a, b) == IF a >= 0 THEN a \div b ELSE -((-a) \div b)

\* `as u8` of an i32: the low 8 bits
AsU8(n) == n % 256

\* bit i of a u16
Bit(v, i) == (v \div Pow2(i)) % 2

RECURSIVE BitOr(_, _, _)
\* `a | b` on n-bit unsigned values
BitOr(a, b, n) ==
    IF n = 0 THEN 0
    ELSE (IF a % 2 = 1 \/ b % 2 = 1 THEN 1 ELSE 0) + 2 * BitOr(a \div 2, b \div 2, n - 1)

----------------------------------------------------------------------------------------------------------------------------------------------
(* Evaluation order.  Rust evaluates an argument or a `let` once, before   *)
(* its use; Bind(v, F) is F(v) with v evaluated once, first.               *)

Bind(v, F(_)) == CHOOSE r \in {F(x) : x \in {v}} : TRUE

----------------------------------------------------------------------------
(* f32 arithmetic *)

F32Zero == [m |-> 0, e |-> 0]

\* F32Round for n of bl > 24 bits
F32RoundBits(s, n, e, sticky, bl) ==
    LET sh   == bl - 24
        q    == n \div Pow2(sh)
        r    == n % Pow2(sh)
        half == Pow2(sh - 1)
        up   == \/ r > half
                \/ r = half /\ sticky
                \/ r = half /\ ~sticky /\ q % 2 = 1
    IN IF up
       THEN (IF q + 1 = 16777216
             THEN [m |-> s * 8388608, e |-> e + sh + 1]
             ELSE [m |-> s * (q + 1), e |-> e + sh])
       ELSE [m |-> s * q, e |-> e + sh]

\* The f32 nearest to s * n * 2^e, for n >= 0 below 2^31 and s = 1 or -1.
\* sticky: the exact value lies strictly between n and n+1 units of 2^e
\* (only passed when n has at least 26 bits).
F32Round(s, n, e, sticky) ==
    IF n = 0 THEN F32Zero
    ELSE Bind(BitLen(n), LAMBDA bl :
            IF bl <= 24
            THEN [m |-> s * n * Pow2(24 - bl), e |-> e - (24 - bl)]
            ELSE F32RoundBits(s, n, e, sticky, bl))

\* `i as f32` for |i| < 2^24 (exact)
F32FromInt(i) == Bind(i, LAMBDA v : F32Round(Sign(v), Abs(v), 0, FALSE))

\* a + b where a.e >= b.e and both are nonzero
F32AddOrdered(a, b) ==
    LET d == a.e - b.e IN
    IF d <= 5
    THEN Bind(a.m * Pow2(d) + b.m, LAMBDA n : F32Round(Sign(n), Abs(n), b.e, FALSE))
    ELSE LET s      == Sign(a.m)
             big    == Abs(a.m) * 32
             sh     == d - 5
             bm     == IF sh >= 25 THEN 0 ELSE Abs(b.m) \div Pow2(sh)
             sticky == IF sh >= 25 THEN TRUE ELSE Abs(b.m) % Pow2(sh) # 0
         IN Bind(IF Sign(b.m) = s
                 THEN big + bm
                 ELSE big - bm - (IF sticky THEN 1 ELSE 0),
                 LAMBDA n : F32Round(s, n, a.e - 5, sticky))

F32AddValues(a, b) ==
    IF a.m = 0 THEN b
    ELSE IF b.m = 0 THEN a
    ELSE IF a.e >= b.e THEN F32AddOrdered(a, b) ELSE F32AddOrdered(b, a)

\* f32 `a + b`
F32Add(a, b) == Bind(a, LAMBDA x : Bind(b, LAMBDA y : F32AddValues(x, y)))

F32Neg(a) == [m |-> -a.m, e |-> a.e]

\* f32 `a - b`
F32Sub(a, b) == Bind(a, LAMBDA x : Bind(b, LAMBDA y : F32AddValues(x, F32Neg(y))))

\* the product of two nonzero values, from the 12-bit limbs of the mantissas:
\* the 48-bit product is hi * 2^24 + l1 * 2^12 + l0
F32MulLimbs(s, ex, hi, l1, l0) ==
    LET big  == hi >= 8388608
        q    == IF big THEN hi ELSE 2 * hi + l1 \div 2048
        r    == IF big THEN l1 * 4096 + l0 ELSE (l1 % 2048) * 4096 + l0
        half == IF big THEN 8388608 ELSE 4194304
        e2   == ex + (IF big THEN 24 ELSE 23)
        up   == r > half \/ (r = half /\ q % 2 = 1)
    IN IF up
       THEN (IF q + 1 = 16777216
             THEN [m |-> s * 8388608, e |-> e2 + 1]
             ELSE [m |-> s * (q + 1), e |-> e2])
       ELSE [m |-> s * q, e |-> e2]

F32MulValues(a, b) ==
    IF a.m = 0 \/ b.m = 0 THEN F32Zero
    ELSE LET a1  == Abs(a.m) \div 4096
             a0  == Abs(a.m) % 4096
             b1  == Abs(b.m) \div 4096
             b0  == Abs(b.m) % 4096
         IN Bind(a0 * b0, LAMBDA lo :
            Bind(a1 * b0 + a0 * b1 + lo \div 4096, LAMBDA mid :
                F32MulLimbs(Sign(a.m) * Sign(b.m), a.e + b.e,
                            a1 * b1 + mid \div 4096, mid % 4096, lo % 4096)))

\* f32 `a * b`
F32Mul(a, b) == Bind(a, LAMBDA x : Bind(b, LAMBDA y : F32MulValues(x, y)))

\* f32 `a > b`
F32Gt(a, b) ==
    IF a.m >= 0 /\ b.m <= 0 THEN a.m # 0 \/ b.m # 0
    ELSE IF a.m <= 0 /\ b.m >= 0 THEN FALSE
    ELSE IF a.m > 0 THEN a.e > b.e \/ (a.e = b.e /\ a.m > b.m)
    ELSE a.e < b.e \/ (a.e = b.e /\ a.m > b.m)

\* `f as i32`: truncation toward zero, saturating at the i32 range
F32ToI32(f) ==
    IF f.m = 0 THEN 0
    ELSE IF f.e >= 8 THEN (IF f.m > 0 THEN 2147483647 ELSE -2147483647 - 1)
    ELSE IF f.e >= 0 THEN f.m * Pow2(f.e)
    ELSE IF f.e <= -24 THEN 0
    ELSE Sign(f.m) * (Abs(f.m) \div Pow2(-f.e))

----------
(* RawDataReader: the decoder of the report buffer.  The byte at offset k  *)
(* of the Vec<u8> is data[k + 1].                                          *)

X_AXIS_HIGH == 1
X_AXIS_LOW == 2
Y_AXIS_HIGH == 3
Y_AXIS_LOW == 4
PRESSURE_HIGH == 5
PRESSURE_LOW == 6
PEN_BUTTONS == 9
TABLET_BUTTONS_HIGH == 12
TABLET_BUTTONS_LOW == 11

\* RawDataReader::new: vec![0u8; 64]
BufferLen == 64

NewBuffer == [k \in 1..BufferLen |-> 0]

\* (high as u16) << 8 | low as u16: the two bytes share no bit
u16_from_2_u8(high, low) == high * 256 + low

\* the same 16 bits read as two's complement
\* the two bytes read as unsigned
i16_from_2_u8_unsigned(high, low) == high * 256 + low

i16_from_2_u8(high, low) ==
    LET u == high * 256 + low
    IN IF u >= 32768 THEN u - 65536 ELSE u

x_axis(d) == i16_from_2_u8(d[X_AXIS_HIGH + 1], d[X_AXIS_LOW + 1])

y_axis(d) == i16_from_2_u8(d[Y_AXIS_HIGH + 1], d[Y_AXIS_LOW + 1])

pressure(d) == u16_from_2_u8(d[PRESSURE_HIGH + 1], d[PRESSURE_LOW + 1])

\* 0xcc << 8
SentinelBits == 204 * 256

tablet_buttons_as_binary_flags(d) ==
    IF TABLET_BUTTONS_HIGH >= Len(d) \/ TABLET_BUTTONS_LOW >= Len(d)
    THEN BitOr(0, SentinelBits, 16)
    ELSE BitOr(u16_from_2_u8(d[TABLET_BUTTONS_HIGH + 1], d[TABLET_BUTTONS_LOW + 1]),
               SentinelBits, 16)

pen_buttons(d) == d[PEN_BUTTONS + 1]

----------------------------------------------------------------------------
(* DeviceDispatcher: constants and key-binding tables *)

PRESSED == 1
RELEASED == 0
HOLD == 2
MAX_X == 4095
MAX_Y == 4095
RAW_PRESSURE_POINTS == 2000
MEDIA_BUTTONS_COUNT == 10

media_button_id_to_key_code_map ==
    [i \in 0..9 |->
        CASE i = 0 -> <<"KEY_MUTE">>
          [] i = 1 -> <<"KEY_VOLUMEDOWN">>
          [] i = 2 -> <<"KEY_VOLUMEUP">>
          [] i = 3 -> <<"KEY_PLAYER">>
          [] i = 4 -> <<"KEY_PLAYPAUSE">>
          [] i = 5 -> <<"KEY_PREVIOUSSONG">>
          [] i = 6 -> <<"KEY_NEXTSONG">>
          [] i = 7 -> <<"KEY_HOME">>
          [] i = 8 -> <<"KEY_CALC">>
          [] i = 9 -> <<"KEY_LEFTMETA", "KEY_D">>]

tablet_button_id_to_key_code_map ==
    [i \in (0..9) \cup {12, 13} |->
        CASE i = 0 -> <<"KEY_TAB">>
          [] i = 1 -> <<"KEY_SPACE">>
          [] i = 2 -> <<"KEY_LEFTALT">>
          [] i = 3 -> <<"KEY_LEFTCTRL">>
          [] i = 4 -> <<"KEY_PAGEUP">>
          [] i = 5 -> <<"KEY_PAGEDOWN">>
          [] i = 6 -> <<"KEY_LEFTBRACE">>
          [] i = 7 -> <<"KEY_LEFTCTRL", "KEY_KPMINUS">>
          [] i = 8 -> <<"KEY_LEFTCTRL", "KEY_KPPLUS">>
          [] i = 9 -> <<"KEY_ESC">>
          [] i = 12 -> <<"KEY_B">>
          [] i = 13 -> <<"KEY_RIGHTBRACE">>]

pen_button_id_to_key_code_map ==
    [i \in {4, 6} |-> IF i = 4 THEN <<"BTN_STYLUS">> ELSE <<"BTN_STYLUS2">>]

\* DeviceDispatcher::new: media_button_width: Self::MAX_X / Self::MEDIA_BUTTONS_COUNT (i32)
media_button_width == TruncDiv(MAX_X, MEDIA_BUTTONS_COUNT)

\* the literals of smooth_coordinates, as f32
F32_0_95 == [m |-> 15938355, e |-> -24]
F32_0_6 == [m |-> 10066330, e |-> -24]
F32_0_3 == [m |-> 10066330, e |-> -25]
F32_5000 == [m |-> 10240000, e |-> -11]
F32_1000 == [m |-> 16384000, e |-> -14]

\* One InputEvent written to a virtual device by VirtualDevice::emit
Ev(dev, type, code, value) == [dev |-> dev, type |-> type, code |-> code, value |-> value]

SynReport(dev) == Ev(dev, "SYN", "SYN_REPORT", 0)

\* `for key in keys { device.emit(KEY, key, state) }`
KeyEvents(dev, keys, state) == [k \in 1..Len(keys) |-> Ev(dev, "KEY", keys[k], state)]

----------------------------------------------------------------------------
(* DeviceDispatcher: the methods, as functions of the dispatcher's fields. *)
(* st is a record of the fields plus ev, the events written so far by the  *)
(* running dispatch, in the order of the emit calls.                       *)

Emit(st, events) == [st EXCEPT !.ev = @ \o events]

\* a gain that gives up close to the target
AlphaStall(dist_sq) ==
    IF F32Gt(dist_sq, F32_5000) THEN F32_0_95
    ELSE IF F32Gt(dist_sq, F32_1000) THEN F32_0_6
    ELSE F32Zero

\* the gain picked from the squared distance
Alpha(dist_sq) ==
    IF F32Gt(dist_sq, F32_5000) THEN F32_0_95
    ELSE IF F32Gt(dist_sq, F32_1000) THEN F32_0_6
    ELSE F32_0_3

smooth_coordinates(st, x, y) ==
    Bind(F32FromInt(x), LAMBDA target_x :
    Bind(F32FromInt(y), LAMBDA target_y :
    Bind(F32Sub(target_x, st.last_x), LAMBDA dx :
    Bind(F32Sub(target_y, st.last_y), LAMBDA dy :
    Bind(F32Add(F32Mul(dx, dx), F32Mul(dy, dy)), LAMBDA dist_sq :
    Bind(Alpha(dist_sq), LAMBDA alpha :
        [st EXCEPT
           !.last_x = F32Add(st.last_x, F32Mul(F32Sub(target_x, st.last_x), alpha)),
           !.last_y = F32Add(st.last_y, F32Mul(F32Sub(target_y, st.last_y), alpha))]))))))

\* the pair smooth_coordinates returns: (self.last_x as i32, self.last_y as i32)
smoothed_x(st) == F32ToI32(st.last_x)

smoothed_y(st) == F32ToI32(st.last_y)

\* a curve clamped to the declared range 0..MAX_PRESSURE
normalize_pressure_clamped(cfg, raw_pressure) ==
    Bind(RAW_PRESSURE_POINTS - raw_pressure, LAMBDA val :
        IF val <= cfg.pressure_threshold
        THEN 0
        ELSE Bind(F32Mul(F32FromInt(val), cfg.sensitivity),
                  LAMBDA scaled : IF F32ToI32(scaled) > 8191 THEN 8191 ELSE F32ToI32(scaled)))

normalize_pressure(cfg, raw_pressure) ==
    Bind(RAW_PRESSURE_POINTS - raw_pressure, LAMBDA val :
        IF val <= cfg.pressure_threshold
        THEN 0
        ELSE Bind(F32Mul(F32FromInt(val), cfg.sensitivity), LAMBDA scaled : F32ToI32(scaled)))

\* no clamp at all
ClampNone(v, lo, hi) == v

Clamp(v, lo, hi) == IF v < lo THEN lo ELSE IF v > hi THEN hi ELSE v

raw_pen_abs_to_pen_abs_events(st, x, y, pressure_value, is_multimedia_area) ==
    IF is_multimedia_area
    THEN st
    ELSE Emit(st, << Ev("virtual_pen", "ABS", "ABS_X", x),
                     Ev("virtual_pen", "ABS", "ABS_Y", Clamp(y, 0, MAX_Y)),
                     Ev("virtual_pen", "ABS", "ABS_PRESSURE", pressure_value),
                     Ev("virtual_pen", "KEY", "BTN_TOOL_PEN", 1) >>)

\* `if let Some(keys) = media_button_id_to_key_code_map.get(&id)`, then emit each key
MediaKeyEvents(id, state) ==
    IF id \in DOMAIN media_button_id_to_key_code_map
    THEN KeyEvents("media_keyboard", media_button_id_to_key_code_map[id], state)
    ELSE << >>

\* the media button latched at a touch-down inside the strip
MediaColumn(x) == AsU8(TruncDiv(x, media_button_width))

pen_emit_touch(st, x, is_multimedia_area, normalized_pressure) ==
    LET is_touching == normalized_pressure > 0
        edge  == st.was_touching # is_touching
        state == IF is_touching THEN PRESSED ELSE RELEASED
        st1   == IF ~edge THEN st
                 ELSE IF is_multimedia_area
                 THEN LET latched == IF state = PRESSED
                                     THEN MediaColumn(x)
                                     ELSE st.last_pressed_media_button
                      IN Emit([st EXCEPT !.last_pressed_media_button = latched],
                              MediaKeyEvents(latched, state))
                 ELSE Emit(st, MediaKeyEvents(st.last_pressed_media_button, RELEASED)
                               \o << Ev("virtual_pen", "KEY", "BTN_TOUCH", state) >>)
    IN [st1 EXCEPT !.was_touching = is_touching]

\* a match that releases the current code instead of the previous one
PenButtonMatchReleaseCurrent(prev, pen_button) ==
    IF prev = 2 /\ (pen_button = 6 \/ pen_button = 4) THEN << PRESSED, pen_button >>
    ELSE IF pen_button = 2 /\ (prev = 6 \/ prev = 4) THEN << RELEASED, pen_button >>
    ELSE IF prev # 2 /\ prev = pen_button THEN << HOLD, prev >>
    ELSE << >>

\* the match of raw_pen_buttons_to_pen_key_events: << >> is None, else <<state, id>>
PenButtonMatch(prev, pen_button) ==
    IF prev = 2 /\ (pen_button = 6 \/ pen_button = 4) THEN << PRESSED, pen_button >>
    ELSE IF pen_button = 2 /\ (prev = 6 \/ prev = 4) THEN << RELEASED, prev >>
    ELSE IF prev # 2 /\ prev = pen_button THEN << HOLD, prev >>
    ELSE << >>

raw_pen_buttons_to_pen_key_events(st, pen_button) ==
    LET hit == PenButtonMatch(st.pen_last_raw_pressed_button, pen_button)
    IN IF hit = << >> THEN st
       ELSE IF hit[2] \in DOMAIN pen_button_id_to_key_code_map
       THEN Emit(st, KeyEvents("virtual_pen", pen_button_id_to_key_code_map[hit[2]], hit[1]))
       ELSE st

\* a dispatch that looks for the strip in the smoothed y
emit_pen_events_smoothed_strip(st, d, cfg) ==
    LET raw_pen_buttons == pen_buttons(d)
    IN Bind([raw_pen_buttons_to_pen_key_events(st, raw_pen_buttons)
                EXCEPT !.pen_last_raw_pressed_button = raw_pen_buttons], LAMBDA st2 :
       Bind(normalize_pressure(cfg, pressure(d)), LAMBDA normalized_pressure :
       Bind(smooth_coordinates(st2, x_axis(d), y_axis(d)), LAMBDA st3 :
       Bind(raw_pen_abs_to_pen_abs_events(st3, smoothed_x(st3), smoothed_y(st3),
                                          normalized_pressure, smoothed_y(st3) < 0),
            LAMBDA st4 :
                pen_emit_touch(st4, smoothed_x(st3), smoothed_y(st3) < 0,
                               normalized_pressure)))))

emit_pen_events(st, d, cfg) ==
    LET y_raw              == y_axis(d)
        is_multimedia_area == y_raw < 0
        raw_pen_buttons    == pen_buttons(d)
    IN Bind([raw_pen_buttons_to_pen_key_events(st, raw_pen_buttons)
                EXCEPT !.pen_last_raw_pressed_button = raw_pen_buttons], LAMBDA st2 :
       Bind(normalize_pressure(cfg, pressure(d)), LAMBDA normalized_pressure :
       Bind(smooth_coordinates(st2, x_axis(d), y_raw), LAMBDA st3 :
       Bind(raw_pen_abs_to_pen_abs_events(st3, smoothed_x(st3), smoothed_y(st3),
                                          normalized_pressure, is_multimedia_area),
            LAMBDA st4 :
                pen_emit_touch(st4, smoothed_x(st3), is_multimedia_area,
                               normalized_pressure)))))

\* a match that never repeats a held button
TabletButtonMatchNoHold(was_pressed, is_pressed) ==
    IF ~was_pressed /\ is_pressed THEN PRESSED
    ELSE IF was_pressed /\ ~is_pressed THEN RELEASED
    ELSE -1

\* the match of emit_tablet_key_event: -1 is None
TabletButtonMatch(was_pressed, is_pressed) ==
    IF ~was_pressed /\ is_pressed THEN PRESSED
    ELSE IF was_pressed /\ ~is_pressed THEN RELEASED
    ELSE IF was_pressed /\ is_pressed THEN HOLD
    ELSE -1

\* the events emit_tablet_key_event writes (it changes no field)
emit_tablet_key_event(last_flags, i, raw_button_as_flags) ==
    \* flags & (1 << i) == 0: bit i is clear
    LET is_pressed  == Bit(raw_button_as_flags, i) = 0
        was_pressed == Bit(last_flags, i) = 0
        state       == TabletButtonMatch(was_pressed, is_pressed)
    IN IF state = -1 THEN << >>
       ELSE IF i \in DOMAIN tablet_button_id_to_key_code_map
       THEN KeyEvents("virtual_keyboard", tablet_button_id_to_key_code_map[i], state)
            \o << SynReport("virtual_keyboard") >>
       ELSE << >>

RECURSIVE TabletKeyEventsFrom(_, _, _)
\* (0..14).filter(|i| ![10, 11].contains(i)).for_each(...), from id i on
TabletKeyEventsFrom(last_flags, i, raw_button_as_flags) ==
    IF i >= 14 THEN << >>
    ELSE (IF i \in {10, 11} THEN << >>
          ELSE emit_tablet_key_event(last_flags, i, raw_button_as_flags))
         \o TabletKeyEventsFrom(last_flags, i + 1, raw_button_as_flags)

binary_flags_to_tablet_key_events(st, raw_button_as_flags) ==
    Emit(st, TabletKeyEventsFrom(st.tablet_last_raw_pressed_buttons, 0, raw_button_as_flags))

emit_tablet_events(st, d) ==
    Bind(tablet_buttons_as_binary_flags(d), LAMBDA raw_button_as_binary_flags :
        [binary_flags_to_tablet_key_events(st, raw_button_as_binary_flags)
            EXCEPT !.tablet_last_raw_pressed_buttons = raw_button_as_binary_flags])

\* a dispatch that translates the tablet buttons before the pen
dispatch_tablet_first(st, d, cfg) ==
    Bind(emit_tablet_events(st, d), LAMBDA st1 : emit_pen_events(st1, d, cfg))

dispatch(st, d, cfg) ==
    Bind(emit_pen_events(st, d, cfg), LAMBDA st1 : emit_tablet_events(st1, d))

\* the two emit calls of syn(), in order
SynEvents == << SynReport("virtual_keyboard"), SynReport("virtual_pen") >>

----------------------------------------------------------------------------
(* Inputs: reports, configurations, outcomes of the fallible calls *)

\* A report as the tablet sends it: x, y (i16), p (u16 raw pressure),
\* pen (u8 pen-button code), tablet (u16 mask of bytes 12 and 11).
Sample(x, y, p, pen, tablet) == [x |-> x, y |-> y, p |-> p, pen |-> pen, tablet |-> tablet]

\* the 64 bytes read_interrupt stores into the buffer for a report
MkReport(s) ==
    LET ux == IF s.x < 0 THEN s.x + 65536 ELSE s.x
        uy == IF s.y < 0 THEN s.y + 65536 ELSE s.y
    IN  << 0, ux \div 256, ux % 256, uy \div 256, uy % 256, s.p \div 256, s.p % 256,
           0, 0, s.pen, 0, s.tablet % 256, s.tablet \div 256 >>
        \o [k \in 1..(BufferLen - 13) |-> 0]

AppConfig(threshold, sensitivity) ==
    [pressure_threshold |-> threshold, sensitivity |-> sensitivity]

\* impl Default for AppConfig: pressure_threshold 510, sensitivity 5.0
DefaultConfig == AppConfig(510, [m |-> 10485760, e |-> -21])

\* rusb errors of read_interrupt other than Timeout
TransportErrors == {"NoDevice", "Io", "Pipe"}

\* The results of the fallible calls of init() and set_full_mode()
InitOutcome(detach, claim, endpoint, reset, set_report) ==
    [detach |-> detach, claim |-> claim, endpoint |-> endpoint,
     reset |-> reset, set_report |-> set_report]

NoHandle == InitOutcome(FALSE, FALSE, FALSE, FALSE, FALSE)

NoDevice == [present |-> FALSE, endpoint_address |-> 0, handle |-> NoHandle]

\* An emit that fails during one dispatch + syn: 0 none, k > 0 the k-th emit
\* call of dispatch, -1 the keyboard emit of syn(), -2 the pen emit of syn().
NoFailure == 0
SynKeyboardFails == 0 - 1
SynPenFails == 0 - 2

\* The RwLock around the snapshot: writer is where the watcher stands in `*w = new_config`
\* ("idle", "locked" with nothing stored yet, "half" with the first field stored),
\* pending the value it stores, reader whether normalize_pressure holds the read
\* guard, seen the fields it has loaded through the guard.
Unlocked(c) == [writer |-> "idle", pending |-> c, reader |-> FALSE, seen |-> c]

Io(step, log, sleep_ms) == [step |-> step, log |-> log, sleep_ms |-> sleep_ms]

----------------------------------------------------------------------------
(* The state after main() has built the reader and the dispatcher *)

InitWith(C) ==
    /\ pc = "check"
    /\ flag = FALSE
    /\ physical_device = NoDevice
    /\ data = NewBuffer
    /\ config \in C
    /\ rw = Unlocked(config)
    /\ tablet_last_raw_pressed_buttons = 65535
    /\ pen_last_raw_pressed_button = 0
    /\ last_pressed_media_button = 0
    /\ was_touching = FALSE
    /\ last_x = F32FromInt(TruncDiv(MAX_X, 2))
    /\ last_y = F32FromInt(TruncDiv(MAX_Y, 2))
    /\ out = << >>
    /\ io = Io("start", "Driver started. Waiting for device...", 0)
    /\ hist = << >>

\* the DeviceDispatcher's fields, as the record the methods work on
Dispatcher ==
    [tablet_last_raw_pressed_buttons |-> tablet_last_raw_pressed_buttons,
     pen_last_raw_pressed_button |-> pen_last_raw_pressed_button,
     last_pressed_media_button |-> last_pressed_media_button,
     was_touching |-> was_touching,
     last_x |-> last_x,
     last_y |-> last_y,
     ev |-> << >>]

DispatcherVars == << tablet_last_raw_pressed_buttons, pen_last_raw_pressed_button,
                     last_pressed_media_button, was_touching, last_x, last_y >>

Running == pc \in {"check", "body"}

----------------------------------------------------------------------------
(* Actions *)

\* a loop that never looks at the flag
LoopForever ==
    /\ pc = "check"
    /\ pc' = "body"
    /\ UNCHANGED << flag, physical_device, data, config, rw, DispatcherVars, out, io, hist >>

\* main_loop: `while !flag.load(Ordering::Relaxed)`
LoopCheck ==
    /\ pc = "check"
    /\ IF flag
       THEN /\ pc' = "exited"
            /\ io' = Io("exit", "The driver has exited.", 0)
       ELSE /\ pc' = "body"
            /\ io' = io
    /\ UNCHANGED << flag, physical_device, data, config, rw, DispatcherVars, out, hist >>

\* signal_hook::flag::register: SIGINT, SIGTERM or SIGQUIT sets the flag
Signal ==
    /\ Running
    /\ ~flag
    /\ flag' = TRUE
    /\ UNCHANGED << pc, physical_device, data, config, rw, DispatcherVars, out, io, hist >>

\* the watcher thread: `*w = new_config` under the write lock
ConfigReload(C) ==
    /\ Running
    /\ \E c \in C : config' = c
    /\ UNCHANGED << pc, flag, physical_device, data, rw, DispatcherVars, out, io, hist >>

\* a closure that keeps the device only when every step of init() and set_full_mode() worked
ConnectIfInitialized(O) ==
    /\ pc = "body"
    /\ ~physical_device.present
    /\ \E o \in O :
          physical_device' =
              IF o.detach /\ o.claim /\ o.endpoint /\ o.reset /\ o.set_report
              THEN [present |-> TRUE, endpoint_address |-> 129, handle |-> o]
              ELSE physical_device
    /\ io' = Io("connected", "Device connected!", 0)
    /\ pc' = "check"
    /\ UNCHANGED << flag, data, config, rw, DispatcherVars, out, hist >>

\* a closure that builds a new dispatcher for every connection
ConnectNewDispatcher(O) ==
    /\ pc = "body"
    /\ ~physical_device.present
    /\ \E o \in O :
          physical_device' =
              [present |-> TRUE,
               endpoint_address |-> IF o.claim /\ o.endpoint THEN 129 ELSE 0,
               handle |-> o]
    /\ io' = Io("connected", "Device connected!", 0)
    /\ pc' = "check"
    /\ tablet_last_raw_pressed_buttons' = 65535
    /\ pen_last_raw_pressed_button' = 0
    /\ last_pressed_media_button' = 0
    /\ was_touching' = FALSE
    /\ last_x' = F32FromInt(TruncDiv(MAX_X, 2))
    /\ last_y' = F32FromInt(TruncDiv(MAX_Y, 2))
    /\ UNCHANGED << flag, data, config, rw, out, hist >>

\* closure, Disconnected: PhysicalDevice::new is Ok, then init().set_full_mode()
Connect(O) ==
    /\ pc = "body"
    /\ ~physical_device.present
    /\ \E o \in O :
          physical_device' =
              [present |-> TRUE,
               \* init: the address of the interrupt endpoint of a claimed interface (0x81), else still 0
               endpoint_address |-> IF o.claim /\ o.endpoint THEN 129 ELSE 0,
               handle |-> o]
    /\ io' = Io("connected", "Device connected!", 0)
    /\ pc' = "check"
    /\ UNCHANGED << flag, data, config, rw, DispatcherVars, out, hist >>

\* a closure that unwraps the result of PhysicalDevice::new
ConnectFailAborts ==
    /\ pc = "body"
    /\ ~physical_device.present
    /\ io' = Io("connect_failed", "", 0)
    /\ pc' = "panicked"
    /\ UNCHANGED << flag, physical_device, data, config, rw, DispatcherVars, out, hist >>

\* closure, Disconnected: PhysicalDevice::new is Err, sleep 500 ms
ConnectFail ==
    /\ pc = "body"
    /\ ~physical_device.present
    /\ io' = Io("connect_failed", "", 500)
    /\ pc' = "check"
    /\ UNCHANGED << flag, physical_device, data, config, rw, DispatcherVars, out, hist >>

\* a closure that drops the link when syn() fails
DropOnSynError(dev, f) ==
    IF f \in {SynKeyboardFails, SynPenFails} THEN NoDevice ELSE dev

\* `if device_dispatcher.syn().is_err() { eprintln!(..) }`: the link after syn() returned
AfterSyn(dev, f) == dev

\* dispatch, then syn, for a report just read; the driver thread stands at `at` and
\* normalize_pressure finds the snapshot cfg behind its read guard
DispatchAt(at, cfg, S, F, n) ==
    /\ pc = at
    /\ physical_device.present
    /\ physical_device.endpoint_address # 0
    /\ Len(hist) < n
    /\ \E s \in S, f \in F :
       \E d \in {MkReport(s)} :
       \E st \in {dispatch(Dispatcher, d, cfg)} :
             /\ data' = d
             /\ IF f \in 1..Len(st.ev)
                THEN \* an emit of dispatch fails: .expect() panics
                     /\ pc' = "panicked"
                     /\ out' = SubSeq(st.ev, 1, f - 1)
                     /\ io' = Io("panic", "Error emitting", 0)
                     /\ UNCHANGED << physical_device, DispatcherVars, hist >>
                ELSE /\ pc' = "check"
                     /\ physical_device' = AfterSyn(physical_device, f)
                     /\ tablet_last_raw_pressed_buttons' = st.tablet_last_raw_pressed_buttons
                     /\ pen_last_raw_pressed_button' = st.pen_last_raw_pressed_button
                     /\ last_pressed_media_button' = st.last_pressed_media_button
                     /\ was_touching' = st.was_touching
                     /\ last_x' = st.last_x
                     /\ last_y' = st.last_y
                     /\ out' = st.ev \o (IF f = SynKeyboardFails THEN << >>
                                         ELSE IF f = SynPenFails THEN SubSeq(SynEvents, 1, 1)
                                         ELSE SynEvents)
                     /\ io' = Io("read_ok",
                                 IF f \in {SynKeyboardFails, SynPenFails}
                                 THEN "Error emitting SYN." ELSE "", 0)
                     /\ hist' = Append(hist, [s |-> s, cfg |-> cfg, ev |-> out',
                                               link |-> physical_device.handle,
                                               x |-> smoothed_x(st), y |-> smoothed_y(st),
                                               media |-> st.last_pressed_media_button,
                                               touching |-> st.was_touching])
    /\ UNCHANGED << flag, config >>

\* a dispatcher that keeps the snapshot its first report was normalized with
ReadDispatchFirstSnapshot(S, F, n) ==
    /\ DispatchAt("body", IF hist = << >> THEN config ELSE hist[1].cfg, S, F, n)
    /\ UNCHANGED rw

\* closure, Connected: read is Ok(len) with len > 0: dispatch, then syn
ReadDispatch(S, F, n) ==
    /\ DispatchAt("body", config, S, F, n)
    /\ UNCHANGED rw

\* closure, Connected: read is Ok(0)
ReadEmpty ==
    /\ pc = "body"
    /\ physical_device.present
    /\ physical_device.endpoint_address # 0
    /\ pc' = "check"
    /\ io' = Io("read_empty", "", 0)
    /\ UNCHANGED << flag, physical_device, data, config, rw, DispatcherVars, out, hist >>

\* a closure that treats a timeout as a lost link
ReadTimeoutDropsLink ==
    /\ pc = "body"
    /\ physical_device.present
    /\ physical_device.endpoint_address # 0
    /\ pc' = "check"
    /\ io' = Io("read_timeout", "", 0)
    /\ physical_device' = NoDevice
    /\ UNCHANGED << flag, data, config, rw, DispatcherVars, out, hist >>

\* closure, Connected: read is Err(rusb::Error::Timeout) after 1 s
ReadTimeout ==
    /\ pc = "body"
    /\ physical_device.present
    /\ physical_device.endpoint_address # 0
    /\ pc' = "check"
    /\ io' = Io("read_timeout", "", 0)
    /\ UNCHANGED << flag, physical_device, data, config, rw, DispatcherVars, out, hist >>

\* a closure that reports the error and keeps the link
ReadErrorKeepsLink ==
    /\ pc = "body"
    /\ physical_device.present
    /\ \E e \in TransportErrors : io' = Io("read_error", e, 0)
    /\ pc' = "check"
    /\ UNCHANGED << flag, physical_device, data, config, rw, DispatcherVars, out, hist >>

\* closure, Connected: read is Err(e), e not Timeout: physical_device = None
ReadError ==
    /\ pc = "body"
    /\ physical_device.present
    /\ \E e \in TransportErrors : io' = Io("read_error", e, 0)
    /\ physical_device' = NoDevice
    /\ pc' = "check"
    /\ UNCHANGED << flag, data, config, rw, DispatcherVars, out, hist >>

----------------------------------------------------------------------------------------------------------------------------------------------
(* The driver: every action, over a small alphabet of reports *)

AllOk == InitOutcome(TRUE, TRUE, TRUE, TRUE, TRUE)

\* pen away from the surface, nothing pressed
IdleSample == Sample(2047, 2047, 2000, 2, 65535)

\* pen pressed on the drawing surface with stylus button 4 and tablet button 0 held
TouchSample == Sample(100, 100, 1000, 4, 65534)

Samples == {IdleSample, TouchSample}

\* all steps succeed; no interface is claimed; reset and the mode switch fail
InitOutcomes ==
    {AllOk,
     InitOutcome(TRUE, FALSE, FALSE, TRUE, TRUE),
     InitOutcome(FALSE, TRUE, TRUE, FALSE, FALSE)}

FailModes == {NoFailure, SynKeyboardFails, SynPenFails, 1}

Init == InitWith({DefaultConfig})

Next ==
    \/ LoopCheck
    \/ Signal
    \/ Connect(InitOutcomes)
    \/ ConnectFail
    \/ ReadDispatch(Samples, FailModes, MaxLoopSamples)
    \/ ReadEmpty
    \/ ReadTimeout
    \/ ReadError

Spec == Init /\ [][Next]_vars

----------------------------------------------------------------------------
(* Tablet buttons: the driver fed reports that differ in the tablet mask *)

\* the ids with a key binding
BoundTabletIds == (0..9) \cup {12, 13}

AllReleased == 65535

\* only id i pressed (active low)
Only(i) == AllReleased - Pow2(i)

\* id i pressed together with a two-key button (7, or 8 when i is 7)
Pair(i) == Only(i) - Pow2(IF i = 7 THEN 8 ELSE 7)

\* the raw mask with the bits of ids 10, 11, 14 and 15 clear and nothing else pressed
RawQuiet == AllReleased - SentinelBits

\* One behaviour exercises one bound id: the ids every report so far agrees with
Focus ==
    {i \in BoundTabletIds :
        \A k \in 1..Len(hist) : hist[k].s.tablet \in {AllReleased, RawQuiet, Only(i), Pair(i)}}

TabletSamples ==
    {Sample(2047, 2047, 2000, 2, m) :
        m \in {AllReleased, RawQuiet} \cup UNION {{Only(i), Pair(i)} : i \in Focus}}

NextTablet ==
    \/ LoopCheck
    \/ Connect({AllOk})
    \/ ReadDispatch(TabletSamples, {NoFailure}, MaxSamples)

SpecTablet == InitWith({DefaultConfig}) /\ [][NextTablet]_vars

\* the tablet mask of the report before the k-th one; 0xFFFF before the first
PrevTabletMask(k) == IF k = 1 THEN AllReleased ELSE hist[k - 1].s.tablet

\* active low: the button is pressed when its bit is clear
MaskPressed(m, i) == (m \div Pow2(i)) % 2 = 0

\* what the table asks of id i between two masks: its keys in binding order
\* with the state of the transition, then one flush of the keyboard
TableEvents(prev, cur, i) ==
    LET keys == tablet_button_id_to_key_code_map[i]
        rows == IF ~MaskPressed(prev, i) /\ MaskPressed(cur, i) THEN << PRESSED >>
                ELSE IF MaskPressed(prev, i) /\ MaskPressed(cur, i) THEN << HOLD >>
                ELSE IF MaskPressed(prev, i) /\ ~MaskPressed(cur, i) THEN << RELEASED >>
                ELSE << >>
    IN IF rows = << >> THEN << >>
       ELSE [n \in 1..Len(keys) |-> Ev("virtual_keyboard", "KEY", keys[n], rows[1])]
            \o << Ev("virtual_keyboard", "SYN", "SYN_REPORT", 0) >>

TableEventsAll(prev, cur) ==
    TableEvents(prev, cur, 0) \o TableEvents(prev, cur, 1) \o TableEvents(prev, cur, 2)
    \o TableEvents(prev, cur, 3) \o TableEvents(prev, cur, 4) \o TableEvents(prev, cur, 5)
    \o TableEvents(prev, cur, 6) \o TableEvents(prev, cur, 7) \o TableEvents(prev, cur, 8)
    \o TableEvents(prev, cur, 9) \o TableEvents(prev, cur, 12) \o TableEvents(prev, cur, 13)

OnDevice(events, dev) == SelectSeq(events, LAMBDA e : e.dev = dev)

KeysOf(events) == SelectSeq(events, LAMBDA e : e.type = "KEY")

TabletMasks == [k \in 1..Len(hist) |-> hist[k].s.tablet]

\* C1: for every dispatched report, the events written to the tablet keyboard are,
\* for each bound id in ascending order, the keys of the id with the state the
\* (previous bit, current bit) table gives (PRESSED, HOLD, RELEASED, or nothing),
\* each group followed at once by a keyboard flush, and then the flush of syn();
\* the reports [all released, id, id, all released] give PRESSED, HOLD, RELEASED.
C1_TabletButtonTable ==
    /\ \A k \in 1..Len(hist) :
          OnDevice(hist[k].ev, "virtual_keyboard")
              = TableEventsAll(PrevTabletMask(k), hist[k].s.tablet)
                \o << Ev("virtual_keyboard", "SYN", "SYN_REPORT", 0) >>
    /\ \A i \in BoundTabletIds :
          TabletMasks = << AllReleased, Only(i), Only(i), AllReleased >>
          => LET keys == tablet_button_id_to_key_code_map[i]
                 kbd(k) == KeysOf(OnDevice(hist[k].ev, "virtual_keyboard"))
             IN /\ kbd(1) = << >>
                /\ kbd(2) = [n \in 1..Len(keys) |-> Ev("virtual_keyboard", "KEY", keys[n], 1)]
                /\ kbd(3) = [n \in 1..Len(keys) |-> Ev("virtual_keyboard", "KEY", keys[n], 2)]
                /\ kbd(4) = [n \in 1..Len(keys) |-> Ev("virtual_keyboard", "KEY", keys[n], 0)]

\* the two-key button 7 pressed, held and released: the last report releases KEY_KPMINUS
C1_Witness ==
    /\ TabletMasks = << AllReleased, Only(7), Only(7), AllReleased >>
    /\ Ev("virtual_keyboard", "KEY", "KEY_KPMINUS", RELEASED) \in {out[n] : n \in 1..Len(out)}

----------------------------------------------------------------------------
(* Pen buttons: the driver fed reports that differ in the pen-button byte *)

\* the release sentinel, the two buttons, the initial code and a code with no meaning
PenCodes == {0, 2, 4, 5, 6}

PenButtonSamples == {Sample(2047, 2047, 2000, c, AllReleased) : c \in PenCodes}

NextPenButtons ==
    \/ LoopCheck
    \/ Connect({AllOk})
    \/ ReadDispatch(PenButtonSamples, {NoFailure}, MaxSamples)

SpecPenButtons == InitWith({DefaultConfig}) /\ [][NextPenButtons]_vars

\* the pen-button byte of the report before the k-th one; 0 before the first
PrevPenCode(k) == IF k = 1 THEN 0 ELSE hist[k - 1].s.pen

PenCodesSeen == [k \in 1..Len(hist) |-> hist[k].s.pen]

\* the key of a pen button: only 4 and 6 have one
StylusKey(id) ==
    IF id = 4 THEN << "BTN_STYLUS" >> ELSE IF id = 6 THEN << "BTN_STYLUS2" >> ELSE << >>

StylusEvent(id, state) ==
    [n \in 1..Len(StylusKey(id)) |-> Ev("virtual_pen", "KEY", StylusKey(id)[n], state)]

\* the pen-button step as the table states it
PenStepEvents(prev, cur) ==
    IF prev = 2 /\ cur \in {4, 6} THEN StylusEvent(cur, 1)
    ELSE IF prev \in {4, 6} /\ cur = 2 THEN StylusEvent(prev, 0)
    ELSE IF prev = cur /\ prev # 2 THEN StylusEvent(prev, 2)
    ELSE << >>

\* the key events of the pen device other than tool presence and tip contact
PenButtonKeys(events) ==
    SelectSeq(events, LAMBDA e : /\ e.dev = "virtual_pen"
                                 /\ e.type = "KEY"
                                 /\ e.code \notin {"BTN_TOOL_PEN", "BTN_TOUCH"})

\* C2: for every dispatched report the button key events of the pen device are those
\* of the step table on (previous code, current code), the previous code being 0 at
\* first and the code of the report before afterwards: PRESSED on current from 2 to 4
\* or 6, RELEASED on previous from 4 or 6 to 2, HOLD on previous when it repeats and
\* is not 2, nothing otherwise, and nothing at all for an id other than 4 and 6.
C2_PenButtonStep ==
    \A k \in 1..Len(hist) :
        /\ PenButtonKeys(hist[k].ev) = PenStepEvents(PrevPenCode(k), hist[k].s.pen)
        /\ \A n \in 1..Len(hist[k].ev) :
              hist[k].ev[n].code \in {"BTN_STYLUS", "BTN_STYLUS2"}
              => hist[k].ev[n] \in {Ev("virtual_pen", "KEY", "BTN_STYLUS", v) : v \in 0..2}
                                  \cup {Ev("virtual_pen", "KEY", "BTN_STYLUS2", v) : v \in 0..2}

\* button 6 pressed from the sentinel, held, and released
C2_Witness ==
    /\ PenCodesSeen = << 2, 6, 6, 2 >>
    /\ PenButtonKeys(out) = << Ev("virtual_pen", "KEY", "BTN_STYLUS2", RELEASED) >>
    /\ PenButtonKeys(hist[3].ev) = << Ev("virtual_pen", "KEY", "BTN_STYLUS2", HOLD) >>

----------------------------------------------------------------------------
(* The pen: the driver fed reports that differ in x, y and pressure *)

\* x: a column edge of the strip after one smoothing step, and the right edge
PenXs == {1185, 4095}

\* y: the strip, and the first row of the drawing surface
PenYs == {0 - 1, 0}

\* raw pressure: hovering, and pressed beyond the default threshold
PenPressures == {2000, 1000}

PenSamples == {Sample(x, y, p, 2, AllReleased) : x \in PenXs, y \in PenYs, p \in PenPressures}

NextPen ==
    \/ LoopCheck
    \/ Connect({AllOk})
    \/ ReadDispatch(PenSamples, {NoFailure}, MaxSamples)

SpecPen == InitWith({DefaultConfig}) /\ [][NextPen]_vars

\* the events of the pen device that carry the position, the pressure and the tool
AbsPathCodes == {"ABS_X", "ABS_Y", "ABS_PRESSURE", "BTN_TOOL_PEN"}

AbsPath(events) ==
    SelectSeq(events, LAMBDA e : e.dev = "virtual_pen" /\ e.code \in AbsPathCodes)

CodesOf(events) == [n \in 1..Len(events) |-> events[n].code]

\* C7: a dispatched report with raw y < 0 writes no ABS_X, ABS_Y, ABS_PRESSURE or
\* BTN_TOOL_PEN to the pen device, and one with raw y >= 0 writes all four (the tool
\* as present); -1 suppresses and 0 does not; the raw y decides, whatever the
\* smoothed y is.
C7_StripSuppressesAbs ==
    \A k \in 1..Len(hist) :
        IF hist[k].s.y < 0
        THEN AbsPath(hist[k].ev) = << >>
        ELSE /\ CodesOf(AbsPath(hist[k].ev)) = << "ABS_X", "ABS_Y", "ABS_PRESSURE", "BTN_TOOL_PEN" >>
             /\ AbsPath(hist[k].ev)[4].value = 1

\* a report in the strip whose smoothed y is still on the surface, then one at y = 0
C7_Witness ==
    /\ Len(hist) = 2
    /\ hist[1].s.y = 0 - 1
    /\ hist[1].y > 0
    /\ AbsPath(hist[1].ev) = << >>
    /\ hist[2].s.y = 0
    /\ Len(AbsPath(hist[2].ev)) = 4

\* the tip state and the latched media button before the k-th report
WasTouching(k) == IF k = 1 THEN FALSE ELSE hist[k - 1].touching

WasLatched(k) == IF k = 1 THEN 0 ELSE hist[k - 1].media

TouchDownInStrip(k) == hist[k].s.y < 0 /\ ~WasTouching(k) /\ hist[k].touching

TouchUp(k) == WasTouching(k) /\ ~hist[k].touching

\* 10 equal columns over 0..4095: floor(x / 409.5)
EqualColumn(x) == (2 * x) \div 819

\* the key combo bound to a media button, in the given state
MediaCombo(id, state) ==
    [n \in 1..Len(media_button_id_to_key_code_map[id]) |->
        Ev("media_keyboard", "KEY", media_button_id_to_key_code_map[id][n], state)]

\* C8: a touch-down inside the strip latches the column of x and writes the combo
\* bound to it as PRESSED to the media device; a touch-up, in or out of the strip,
\* writes the combo of the button latched before as RELEASED.
C8_MediaLatch ==
    \A k \in 1..Len(hist) :
        /\ TouchDownInStrip(k)
            => /\ hist[k].media = EqualColumn(hist[k].x)
               /\ hist[k].media \in 0..9
               /\ OnDevice(hist[k].ev, "media_keyboard") = MediaCombo(hist[k].media, PRESSED)
        /\ TouchUp(k)
            => /\ WasLatched(k) \in 0..9
               /\ KeysOf(OnDevice(hist[k].ev, "media_keyboard")) = MediaCombo(WasLatched(k), RELEASED)

\* C9: at a touch-down inside the strip the latched column is floor(x / 409.5) of the
\* x used, lies in 0..9 and so has a key combo; x = 4095 gives column 9.
C9_ColumnOfX ==
    \A k \in 1..Len(hist) :
        TouchDownInStrip(k)
        => /\ hist[k].x \in 0..MAX_X
           /\ hist[k].media = EqualColumn(hist[k].x)
           /\ hist[k].media \in DOMAIN media_button_id_to_key_code_map
           /\ (hist[k].x = MAX_X => hist[k].media = 9)

----------------------------------------------------------------------------
(* Pressure: the driver fed reports that differ in the raw pressure, under *)
(* configurations the watcher thread swaps in                              *)

\* sensitivities with an exact binary form: 0.75 and 1.5
F32_0_75 == [m |-> 12582912, e |-> -24]
F32_1_5 == [m |-> 12582912, e |-> -23]

PressureConfigs == {DefaultConfig, AppConfig(0, F32_0_75), AppConfig(400, F32_1_5)}

\* v = 2000, 1000, 400, 5, 3, -1, -63535
RawPressures == {0, 1000, 1600, 1995, 1997, 2001, 65535}

PressureSamples == {Sample(2047, 2047, p, 2, AllReleased) : p \in RawPressures}

NextPressure ==
    \/ LoopCheck
    \/ Connect({AllOk})
    \/ ConfigReload(PressureConfigs)
    \/ ReadDispatch(PressureSamples, {NoFailure}, MaxLoopSamples)

SpecPressure == InitWith({DefaultConfig}) /\ [][NextPressure]_vars

\* the value of the ABS_PRESSURE event of the k-th report
EmittedPressure(k) == AbsPath(hist[k].ev)[3].value

RECURSIVE Lowest(_)
\* a sensitivity m * 2^e in lowest terms
Lowest(f) == IF f.m # 0 /\ f.m % 2 = 0 THEN Lowest([m |-> f.m \div 2, e |-> f.e + 1]) ELSE f

\* v * sensitivity for v > 0, as the fraction num / den
ScaledNum(v, f) == IF Lowest(f).e >= 0 THEN v * Lowest(f).m * Pow2(Lowest(f).e) ELSE v * Lowest(f).m

ScaledDen(f) == IF Lowest(f).e >= 0 THEN 1 ELSE Pow2(0 - Lowest(f).e)

\* C10 as stated: 0 up to the threshold, else v * sensitivity rounded to the nearest integer
C10_PressureRounded ==
    \A k \in 1..Len(hist) :
        LET v == 2000 - hist[k].s.p
            c == hist[k].cfg
        IN EmittedPressure(k) =
              IF v <= c.pressure_threshold THEN 0
              ELSE (2 * ScaledNum(v, c.sensitivity) + ScaledDen(c.sensitivity))
                       \div (2 * ScaledDen(c.sensitivity))

\* C10, amended: with v = 2000 - rawPressure the normalized pressure is 0 when
\* v <= pressureThreshold and otherwise v * sensitivity with the fraction dropped
\* (truncated toward zero), not clamped to 0..8191; with threshold 510 and
\* sensitivity 5.0, raw 1000 gives 5000, raw 1600 gives 0 and raw 0 gives 10000.
C10_PressureTruncated ==
    \A k \in 1..Len(hist) :
        LET v == 2000 - hist[k].s.p
            c == hist[k].cfg
        IN /\ EmittedPressure(k) =
                 IF v <= c.pressure_threshold THEN 0
                 ELSE ScaledNum(v, c.sensitivity) \div ScaledDen(c.sensitivity)
           /\ (c = AppConfig(510, F32FromInt(5)) /\ hist[k].s.p = 1000) => EmittedPressure(k) = 5000
           /\ (c = AppConfig(510, F32FromInt(5)) /\ hist[k].s.p = 1600) => EmittedPressure(k) = 0
           /\ (c = AppConfig(510, F32FromInt(5)) /\ hist[k].s.p = 0) => EmittedPressure(k) = 10000

\* 5 * 0.75 = 3.75 emitted as 3, then 2000 * 5.0 emitted as 10000, beyond 8191
C10_Witness ==
    /\ Len(hist) = 2
    /\ hist[1].cfg = AppConfig(0, F32_0_75)
    /\ hist[1].s.p = 1995
    /\ EmittedPressure(1) = 3
    /\ hist[2].cfg = DefaultConfig
    /\ hist[2].s.p = 0
    /\ EmittedPressure(2) = 10000

\* C20: every dispatched report has its pressure, and from it the touching state,
\* computed from the threshold and the sensitivity of the snapshot the watcher
\* stored last before the dispatch, over the same connection and in the same
\* process: v * sensitivity truncated when v = 2000 - raw is above the threshold,
\* else 0, and touching when that is positive.
C20_LatestSnapshotApplies ==
    [][ hist' # hist =>
          LET k == Len(hist')
              v == 2000 - hist'[k].s.p
              expected == IF v <= config.pressure_threshold THEN 0
                          ELSE ScaledNum(v, config.sensitivity) \div ScaledDen(config.sensitivity)
          IN /\ AbsPath(hist'[k].ev)[3].value = expected
             /\ was_touching' = (expected > 0)
             /\ physical_device' = physical_device
             /\ pc' = "check" ]_vars

\* raw pressure 1600 twice over one connection: under the default snapshot
\* (threshold 510) it is 0 and the pen hovers; after the watcher stored threshold 0
\* and sensitivity 0.75 it is 300 and the pen touches
C20_Witness ==
    /\ Len(hist) = 2
    /\ hist[1].s.p = 1600
    /\ EmittedPressure(1) = 0
    /\ ~hist[1].touching
    /\ hist[2].s.p = 1600
    /\ EmittedPressure(2) = 300
    /\ hist[2].touching
    /\ hist[2].link = hist[1].link
    /\ config = AppConfig(0, F32_0_75)
    /\ was_touching

----------------------------------------------------------------------------
(* The driver loop: links, errors and termination *)

\* the closure ran to its end in this step
IterationEnds == pc = "body" /\ pc' = "check"

\* the step that follows an iteration which left io.step = s: the body of the next one
NextIterationAfter(s) == io.step = s /\ pc = "body" /\ pc' # "body"

\* C3: an iteration whose read fails with a transport error other than Timeout starts
\* Connected and ends Disconnected, without a panic; the iteration after it runs
\* discovery (PhysicalDevice::new succeeds or fails) and no read; this on every cycle.
C3_ReadErrorDropsLink ==
    [][ /\ (IterationEnds /\ io'.step = "read_error")
            => /\ physical_device.present
               /\ physical_device' = NoDevice
        /\ (pc = "body" /\ pc' # "body" /\ io'.step = "read_error") => pc' = "check"
        /\ NextIterationAfter("read_error")
            => /\ io'.step \in {"connected", "connect_failed"}
               /\ pc' = "check" ]_vars

\* a read error after a report had been dispatched, the link gone
C3_Witness ==
    /\ io.step = "read_error"
    /\ io.log \in TransportErrors
    /\ Len(hist) >= 1
    /\ ~physical_device.present
    /\ pc = "body"

\* C4 as stated: after a failed flush the link is dropped
C4_FlushFailureDropsLink ==
    (io.log = "Error emitting SYN." /\ pc = "check") => ~physical_device.present

\* C4, amended: an iteration whose flush fails logs "Error emitting SYN.", does not
\* panic and leaves the link as it was, Connected; the iteration after it reads again.
C4_FlushFailureKeepsLink ==
    [][ /\ (IterationEnds /\ io'.log = "Error emitting SYN.")
            => /\ physical_device.present
               /\ physical_device' = physical_device
               /\ io'.step = "read_ok"
        /\ (pc = "body" /\ pc' # "body" /\ io'.log = "Error emitting SYN.") => pc' = "check"
        /\ (NextIterationAfter("read_ok") /\ io.log = "Error emitting SYN.")
            => io'.step \in {"read_ok", "read_empty", "read_timeout", "read_error", "panic"}
       ]_vars

\* the keyboard flush failed: the events of the dispatch are out, no flush of syn() is
C4_Witness ==
    /\ io.log = "Error emitting SYN."
    /\ physical_device.present
    /\ pc = "check"
    /\ Len(out) > 0
    /\ out[Len(out)] # SynReport("virtual_pen")

\* C5 as stated: Connected only when every step of initialize succeeded
C5_ConnectedOnlyIfInitialized ==
    physical_device.present => physical_device.handle = AllOk

\* C5, amended: a discovery iteration ends Connected exactly when PhysicalDevice::new
\* (discover and open) succeeds, whatever the steps of init() and set_full_mode()
\* return, and then without a sleep; when new fails it stays Disconnected and sleeps
\* 500 ms; the endpoint address is set only if an interface was claimed and had a
\* matching endpoint, and is 0 otherwise.
C5_ConnectedIffOpened ==
    [][ /\ (IterationEnds /\ ~physical_device.present)
            => \/ /\ io'.step = "connected"
                  /\ physical_device'.present
                  /\ io'.sleep_ms = 0
                  /\ physical_device'.endpoint_address # 0
                        <=> (physical_device'.handle.claim /\ physical_device'.handle.endpoint)
               \/ /\ io'.step = "connect_failed"
                  /\ physical_device' = NoDevice
                  /\ io'.sleep_ms = 500
        /\ (~physical_device.present /\ physical_device'.present)
            => (IterationEnds /\ io'.step = "connected") ]_vars

\* Connected although auto-detach, the reset and the mode switch failed
C5_Witness ==
    /\ physical_device.present
    /\ physical_device.handle = InitOutcome(FALSE, TRUE, TRUE, FALSE, FALSE)
    /\ io.step = "connected"

\* what an iteration that met a failure outside dispatch leaves in io
LocalFailure(i) ==
    \/ i.step \in {"connect_failed", "read_timeout", "read_error"}
    \/ i.log = "Error emitting SYN."

\* C13: an iteration that ends with a discovery or open failure, a read timeout, a
\* transport error or a failed flush of syn() goes back to the loop's check; the
\* loop is left only when the check finds the flag set, or by the panic of an emit
\* inside dispatch, which happens during a read iteration of a connected device and
\* leaves the events written before the failed emit.
C13_OnlyEmitFailureAborts ==
    [][ /\ (pc = "body" /\ pc' # pc /\ LocalFailure(io')) => pc' = "check"
        /\ (pc # "exited" /\ pc' = "exited") => (pc = "check" /\ flag)
        /\ (pc # "panicked" /\ pc' = "panicked")
            => /\ pc = "body"
               /\ physical_device.present
               /\ io'.step = "panic"
               /\ ~LocalFailure(io')
               /\ \E s \in Samples :
                     \E n \in 1..Len(dispatch(Dispatcher, MkReport(s), config).ev) :
                        out' = SubSeq(dispatch(Dispatcher, MkReport(s), config).ev, 1, n - 1)
       ]_vars

\* the first emit of a dispatch failed, after one report had gone through
C13_Witness ==
    /\ pc = "panicked"
    /\ io.step = "panic"
    /\ Len(hist) = 1
    /\ out = << >>

\* the flush of syn() may fail; no emit of dispatch does
\* C18: an iteration of the loop is one step out of the closure and makes one read
\* at most; events are written and dispatcher fields change only in a step taken
\* with a device present whose read returned a report, and that step ends the
\* iteration (or the process), so the loop condition is evaluated before the next
\* read; a read that times out or returns 0 bytes keeps the device, writes no
\* event and leaves every field of the dispatcher as it was.
C18_QuietReadChangesNothing ==
    [][ /\ (out' # out \/ hist' # hist \/ DispatcherVars' # DispatcherVars)
            => /\ pc = "body" /\ pc' \in {"check", "panicked"}
               /\ physical_device.present
               /\ io'.step \in {"read_ok", "panic"}
        /\ (pc = "body" /\ pc' # pc /\ io'.step \in {"read_timeout", "read_empty"})
            => /\ physical_device.present
               /\ physical_device' = physical_device
               /\ pc' = "check"
               /\ UNCHANGED << out, hist, DispatcherVars, data >>
        /\ (pc = "body" /\ pc' # pc)
            => io'.step \in {"read_ok", "panic", "read_timeout", "read_empty", "read_error",
                             "connected", "connect_failed"} ]_vars

\* a timeout after the report of a pen pressed with buttons held: the device is still
\* there, and so are the events and the fields the dispatch left
C18_Witness ==
    /\ pc = "check"
    /\ io.step = "read_timeout"
    /\ physical_device.present
    /\ Len(hist) = 1
    /\ hist[1].s = TouchSample
    /\ out = hist[1].ev
    /\ was_touching
    /\ pen_last_raw_pressed_button = 4
    /\ tablet_last_raw_pressed_buttons = 65534

LiveFailModes == {NoFailure, SynPenFails}

\* one run of the closure
Iteration ==
    \/ Connect(InitOutcomes)
    \/ ConnectFail
    \/ ReadDispatch(Samples, LiveFailModes, MaxLoopSamples)
    \/ ReadEmpty
    \/ ReadTimeout
    \/ ReadError

NextLive ==
    \/ LoopCheck
    \/ Signal
    \/ Iteration

\* The loop's thread keeps running, and every read (1 s timeout) and every sleep
\* (500 ms) returns; nothing obliges a signal to arrive.
SpecLive ==
    /\ Init
    /\ [][NextLive]_vars
    /\ WF_vars(LoopCheck)
    /\ WF_vars(Iteration)

----------------------------------------------------------------------------
(* Out-of-range positions: the driver fed reports left, right, above and   *)
(* below the declared 0..4095 square                                       *)

RangeXs == {0 - 100, 5000}

RangeYs == {0 - 3000, 0, 5000}

RangeSamples == {Sample(x, y, 2000, 2, AllReleased) : x \in RangeXs, y \in RangeYs}

NextRange ==
    \/ LoopCheck
    \/ Connect({AllOk})
    \/ ReadDispatch(RangeSamples, {NoFailure}, MaxSamples)

SpecRange == InitWith({DefaultConfig}) /\ [][NextRange]_vars

\* the integer part of an f32 value m * 2^e, the fraction dropped
IntegerPart(f) ==
    IF f.e >= 0 THEN f.m * Pow2(f.e)
    ELSE IF f.e <= 0 - 24 THEN 0      \* |m| < 2^24: the value is below 1
    ELSE IF f.m >= 0 THEN f.m \div Pow2(0 - f.e)
    ELSE 0 - ((0 - f.m) \div Pow2(0 - f.e))

ValuesOf(events, code) ==
    LET hits == SelectSeq(events, LAMBDA e : e.dev = "virtual_pen" /\ e.code = code)
    IN [n \in 1..Len(hits) |-> hits[n].value]

\* C11: every ABS_Y value written lies in 0..4095: it is the integer part of the
\* smoothed y, replaced by 0 when below 0 and by 4095 when above; every ABS_X value
\* written is the integer part of the smoothed x as it is, below 0 and above 4095
\* included.
C11_AbsYClampedAbsXNot ==
    /\ \A k \in 1..Len(hist) :
          /\ \A n \in 1..Len(ValuesOf(hist[k].ev, "ABS_Y")) :
                ValuesOf(hist[k].ev, "ABS_Y")[n] \in 0..4095
          /\ ValuesOf(hist[k].ev, "ABS_X") \in {<< >>, << hist[k].x >>}
    /\ ValuesOf(out, "ABS_X") \in {<< >>, << IntegerPart(last_x) >>}
    /\ ValuesOf(out, "ABS_Y")
          \in {<< >>,
               << IF IntegerPart(last_y) < 0 THEN 0
                  ELSE IF IntegerPart(last_y) > 4095 THEN 4095
                  ELSE IntegerPart(last_y) >>}

\* a report at y = 0 while the smoothed y is still below 0 and the smoothed x left of 0
C11_Witness ==
    /\ Len(hist) >= 2
    /\ hist[Len(hist)].s.y = 0
    /\ IntegerPart(last_y) < 0
    /\ ValuesOf(out, "ABS_Y") = << 0 >>
    /\ IntegerPart(last_x) < 0
    /\ ValuesOf(out, "ABS_X") = << IntegerPart(last_x) >>

----------------------------------------------------------------------------
(* The shared snapshot, step by step: the watcher's `*w = new_config` under *)
(* the write guard and normalize_pressure's two field loads under the read  *)
(* guard.  A struct assignment is no single store, so it is two steps here. *)

\* watcher: `config_monitor.write()` is granted: no guard is held by anyone
WatcherLock(C) ==
    /\ Running \/ pc \in {"reading", "loaded"}
    /\ rw.writer = "idle"
    /\ ~rw.reader
    /\ \E c \in C : rw' = [rw EXCEPT !.writer = "locked", !.pending = c]
    /\ UNCHANGED << pc, flag, physical_device, data, config, DispatcherVars, out, io, hist >>

\* watcher: `*w = new_config`, the first field
WatcherStoreThreshold ==
    /\ rw.writer = "locked"
    /\ config' = [config EXCEPT !.pressure_threshold = rw.pending.pressure_threshold]
    /\ rw' = [rw EXCEPT !.writer = "half"]
    /\ UNCHANGED << pc, flag, physical_device, data, DispatcherVars, out, io, hist >>

\* watcher: `*w = new_config`, the second field; the guard drops at the end of the block
WatcherStoreSensitivity ==
    /\ rw.writer = "half"
    /\ config' = [config EXCEPT !.sensitivity = rw.pending.sensitivity]
    /\ rw' = [rw EXCEPT !.writer = "idle"]
    /\ UNCHANGED << pc, flag, physical_device, data, DispatcherVars, out, io, hist >>

\* a normalize_pressure that takes no guard
NormalizeNoLock ==
    /\ pc = "body"
    /\ physical_device.present
    /\ physical_device.endpoint_address # 0
    /\ Len(hist) < MaxLoopSamples
    /\ pc' = "reading"
    /\ rw' = [rw EXCEPT !.seen = [@ EXCEPT !.pressure_threshold = config.pressure_threshold]]
    /\ UNCHANGED << flag, physical_device, data, config, DispatcherVars, out, io, hist >>

\* driver: a report was read, dispatch has reached normalize_pressure:
\* `self.config.read()` is granted (no writer holds the lock), the threshold is loaded
NormalizeLock ==
    /\ pc = "body"
    /\ physical_device.present
    /\ physical_device.endpoint_address # 0
    /\ Len(hist) < MaxLoopSamples
    /\ rw.writer = "idle"
    /\ pc' = "reading"
    /\ rw' = [rw EXCEPT !.reader = TRUE,
                         !.seen = [@ EXCEPT !.pressure_threshold = config.pressure_threshold]]
    /\ UNCHANGED << flag, physical_device, data, config, DispatcherVars, out, io, hist >>

\* driver: `config.sensitivity` is loaded through the same guard
NormalizeLoadSensitivity ==
    /\ pc = "reading"
    /\ pc' = "loaded"
    /\ rw' = [rw EXCEPT !.seen = [@ EXCEPT !.sensitivity = config.sensitivity]]
    /\ UNCHANGED << flag, physical_device, data, config, DispatcherVars, out, io, hist >>

\* driver: the guard drops when normalize_pressure returns; the rest of dispatch and
\* syn run with the pressure computed from the loaded fields
DispatchLoaded(S, F, n) ==
    /\ DispatchAt("loaded", rw.seen, S, F, n)
    /\ rw' = [rw EXCEPT !.reader = FALSE]

\* two snapshots that differ in both fields
LockConfigs == {DefaultConfig, AppConfig(0, F32_0_75)}

\* v = 1000, 400, 5
LockSamples == {Sample(2047, 2047, p, 2, AllReleased) : p \in {1000, 1600, 1995}}

NextConfig ==
    \/ LoopCheck
    \/ Connect({AllOk})
    \/ WatcherLock(LockConfigs)
    \/ WatcherStoreThreshold
    \/ WatcherStoreSensitivity
    \/ NormalizeLock
    \/ NormalizeLoadSensitivity
    \/ DispatchLoaded(LockSamples, {NoFailure}, MaxLoopSamples)

SpecConfig == InitWith({DefaultConfig}) /\ [][NextConfig]_vars

\* C12: the two fields normalize_pressure loads for one report come from one
\* snapshot: once both are loaded they are the fields of a whole snapshot the
\* watcher stored (or the initial one), in fact of the snapshot now in place, no
\* store happens between the two loads, and every dispatched report had its
\* pressure computed from such a pair.
C12_NoTornSnapshot ==
    /\ pc = "loaded" => (rw.seen \in LockConfigs /\ rw.seen = config)
    /\ pc = "reading" => (rw.seen.pressure_threshold = config.pressure_threshold
                          /\ rw.writer = "idle")
    /\ \A k \in 1..Len(hist) :
          /\ hist[k].cfg \in LockConfigs
          /\ EmittedPressure(k) =
                IF 2000 - hist[k].s.p <= hist[k].cfg.pressure_threshold THEN 0
                ELSE ScaledNum(2000 - hist[k].s.p, hist[k].cfg.sensitivity)
                        \div ScaledDen(hist[k].cfg.sensitivity)

\* normalize_pressure holds the guard with both fields loaded, after the watcher
\* had replaced the snapshot, one report was dispatched, and it put the first one back
C12_Witness ==
    /\ pc = "loaded"
    /\ rw.reader
    /\ rw.seen = DefaultConfig
    /\ Len(hist) = 1
    /\ hist[1].cfg = AppConfig(0, F32_0_75)

----------------------------------------------------------------------------
(* Smoothing: the pen moved somewhere and then held still, the tablet      *)
(* sending the same position again and again                               *)

\* from the initial position the first step falls into the gain bucket 0.3 (20 away),
\* 0.6 (50 and 70 away) or 0.95 (the two far corners)
StillPoints == {<< 2067, 2047 >>, << 2097, 2047 >>, << 2047, 2117 >>, << 100, 0 - 1 >>, << 4095, 4095 >>}

\* any position first, then a target, then the target again
StillSamples ==
    IF Len(hist) < 2
    THEN {Sample(q[1], q[2], 2000, 2, AllReleased) : q \in StillPoints}
    ELSE {hist[2].s}

NextStill ==
    \/ LoopCheck
    \/ Connect({AllOk})
    \/ ReadDispatch(StillSamples, {NoFailure}, MaxRepeats)

\* the loop keeps running and the tablet keeps reporting
SpecStill ==
    /\ InitWith({DefaultConfig})
    /\ [][NextStill]_vars
    /\ WF_vars(NextStill)

\* |f - t| <= 1 for an f32 value f = m * 2^e and an integer t
Within1(f, t) ==
    /\ IntegerPart(f) - t \in (0 - 1)..1
    /\ \/ f.e >= 0
       \/ /\ f.e <= 0 - 24
          /\ (t = 0 \/ (t = 1 /\ f.m >= 0) \/ (t = 0 - 1 /\ f.m <= 0))
       \/ /\ f.e \in (0 - 23)..(0 - 1)
          /\ (t - 1) * Pow2(0 - f.e) <= f.m
          /\ f.m <= (t + 1) * Pow2(0 - f.e)

\* the smoothed position is within 1 unit of the target being repeated, on both axes
NearTarget ==
    /\ Len(hist) >= 2
    /\ Within1(last_x, hist[2].s.x)
    /\ Within1(last_y, hist[2].s.y)

\* C14: from whatever position the first report left, the same raw (x, y)
\* dispatched again and again brings the smoothed position within 1 unit of it on
\* both axes, and once within 1 unit every further repetition leaves it there.
C14_SmoothingConverges ==
    /\ [][ (NearTarget /\ hist' # hist) => NearTarget' ]_vars
    /\ <>[]NearTarget

\* from the far corner to the strip's left: the integer part of x still 2 off after
\* 6 reports of the target, the position within 1 unit after the 9th
C14_Witness ==
    /\ Len(hist) = 10
    /\ hist[1].s.x = 4095
    /\ hist[2].s.x = 100
    /\ hist[7].x - 100 \notin (0 - 1)..1
    /\ NearTarget

----------------------------------------------------------------------------
(* Order of the steps of one dispatch: reports that make every step emit   *)

\* pen touching inside the strip with stylus button 4 and tablet button 0 held
StripTouchSample == Sample(100, 0 - 1, 1000, 4, 65534)

\* pen hovering with stylus button 6 and tablet button 1 held
HoverSample == Sample(2047, 2047, 2000, 6, 65533)

OrderSamples == {IdleSample, TouchSample, StripTouchSample, HoverSample}

NextOrder ==
    \/ LoopCheck
    \/ Connect({AllOk})
    \/ ReadDispatch(OrderSamples, {NoFailure}, MaxSamples)

SpecOrder == InitWith({DefaultConfig}) /\ [][NextOrder]_vars

\* the step of dispatch an emitted event comes from
StepOf(e) ==
    IF e.dev = "virtual_keyboard" THEN "tablet_button"
    ELSE IF e.dev = "media_keyboard" \/ e.code = "BTN_TOUCH" THEN "touch_media"
    ELSE IF e.code \in AbsPathCodes THEN "absolute_axis"
    ELSE "pen_button"

\* no event of a later step before an event of an earlier one
InOrder(events, rank) ==
    \A i, j \in 1..Len(events) : i < j => rank[StepOf(events[i])] <= rank[StepOf(events[j])]

\* what the k-th dispatch wrote before syn(), and what syn() wrote
DispatchEvents(k) == SubSeq(hist[k].ev, 1, Len(hist[k].ev) - 2)

FlushEvents(k) == SubSeq(hist[k].ev, Len(hist[k].ev) - 1, Len(hist[k].ev))

TabletButtonsSecond ==
    [s \in {"pen_button", "tablet_button", "absolute_axis", "touch_media"} |->
        CASE s = "pen_button" -> 1 [] s = "tablet_button" -> 2
          [] s = "absolute_axis" -> 3 [] s = "touch_media" -> 4]

TabletButtonsLast ==
    [s \in {"pen_button", "tablet_button", "absolute_axis", "touch_media"} |->
        CASE s = "pen_button" -> 1 [] s = "absolute_axis" -> 2
          [] s = "touch_media" -> 3 [] s = "tablet_button" -> 4]

\* C15: the events of every dispatched report come in the order pen-button
\* translation, absolute-axis emission (after pressure normalization and smoothing),
\* touch/media edge detection, tablet-button translation, and then the final flush
\* of the keyboard and of the pen: every tablet-button event of a report is written
\* after the pen-button, absolute-axis and touch/media events of the same report.
C15_TabletButtonsAfterPen ==
    \A k \in 1..Len(hist) :
        /\ InOrder(DispatchEvents(k), TabletButtonsLast)
        /\ FlushEvents(k) = << SynReport("virtual_keyboard"), SynReport("virtual_pen") >>

\* C15 as stated: pen buttons, then tablet buttons, then absolute axes, then
\* touch/media, then the final flush; no tablet-button event after an absolute-axis
\* or touch event of the same report.
C15_TabletButtonsBeforeAbs ==
    \A k \in 1..Len(hist) :
        /\ InOrder(DispatchEvents(k), TabletButtonsSecond)
        /\ FlushEvents(k) = << SynReport("virtual_keyboard"), SynReport("virtual_pen") >>

\* a report whose dispatch wrote events of all four steps
C15_Witness ==
    /\ Len(hist) = 2
    /\ {StepOf(DispatchEvents(2)[n]) : n \in 1..Len(DispatchEvents(2))}
          = {"pen_button", "tablet_button", "absolute_axis", "touch_media"}

----------------------------------------------------------------------------
(* RawDataReader on its own: buffers of any length and any bytes handed to *)
(* the decoding methods                                                    *)

\* a 64-byte buffer with the given bytes at offsets 1..6, 9, 11 and 12 and 0xAA at
\* the offsets no method reads
RawBytes(xh, xl, yh, yl, ph, pl, pen, tl, th) ==
    << 170, xh, xl, yh, yl, ph, pl, 170, 170, pen, 170, tl, th >>
    \o [k \in 1..(BufferLen - 13) |-> 170]

\* `data: Vec<u8>` is public: the buffer cut to 0, 10, 11, 12, 13 bytes, or whole
BufferLens == {0, 10, 11, 12, 13, BufferLen}

Buffers ==
    {SubSeq(RawBytes(xy[1], xy[2], xy[2], xy[1], pr[1], pr[2], pen, tb[1], tb[2]), 1, n) :
        xy \in {<< 0, 1 >>, << 127, 255 >>, << 128, 0 >>, << 255, 254 >>},
        pr \in {<< 1, 0 >>, << 255, 254 >>},
        pen \in {2, 200},
        tb \in {<< 255, 255 >>, << 0, 0 >>, << 254, 51 >>, << 52, 18 >>},
        n \in BufferLens}

InitDecoder ==
    /\ pc = "check"
    /\ flag = FALSE
    /\ physical_device = NoDevice
    /\ data \in Buffers
    /\ config = DefaultConfig
    /\ rw = Unlocked(config)
    /\ tablet_last_raw_pressed_buttons = 65535
    /\ pen_last_raw_pressed_button = 0
    /\ last_pressed_media_button = 0
    /\ was_touching = FALSE
    /\ last_x = F32FromInt(TruncDiv(MAX_X, 2))
    /\ last_y = F32FromInt(TruncDiv(MAX_Y, 2))
    /\ out = << >>
    /\ io = Io("start", "Driver started. Waiting for device...", 0)
    /\ hist = << >>

\* tablet_buttons_as_binary_flags(&self) on the buffer
DecodeTabletButtons ==
    /\ hist = << >>
    /\ hist' = << [op |-> "tablet_buttons", data |-> data,
                   s |-> [tablet |-> tablet_buttons_as_binary_flags(data)]] >>
    /\ UNCHANGED << pc, flag, physical_device, data, config, rw, DispatcherVars, out, io >>

\* the five methods on the buffer, as emit_pen_events and emit_tablet_events call
\* them; `self.data[i]` panics when i is beyond the end
DecodeReport ==
    /\ hist = << >>
    /\ pc = "check"
    /\ IF PEN_BUTTONS >= Len(data)
       THEN /\ pc' = "panicked"
            /\ io' = Io("panic", "index out of bounds", 0)
            /\ UNCHANGED hist
       ELSE /\ hist' = << [op |-> "report", data |-> data,
                           s |-> Sample(x_axis(data), y_axis(data), pressure(data),
                                        pen_buttons(data),
                                        tablet_buttons_as_binary_flags(data))] >>
            /\ UNCHANGED << pc, io >>
    /\ UNCHANGED << flag, physical_device, data, config, rw, DispatcherVars, out >>

NextDecoder ==
    \/ DecodeTabletButtons
    \/ DecodeReport

SpecDecoder == InitDecoder /\ [][NextDecoder]_vars

\* the byte at offset k of buffer d
ByteAt(d, k) == d[k + 1]

\* 16 bits, big-endian, unsigned
BigEndian(d, k) == ByteAt(d, k) * 256 + ByteAt(d, k + 1)

\* 16 bits, big-endian, two's complement
BigEndianSigned(d, k) ==
    IF BigEndian(d, k) >= 32768 THEN BigEndian(d, k) - 65536 ELSE BigEndian(d, k)

\* u OR 0xCC00: bits 10, 11, 14 and 15 set, the others as in u
OrSentinel(u) ==
    u + (IF (u \div 1024) % 2 = 0 THEN 1024 ELSE 0) + (IF (u \div 2048) % 2 = 0 THEN 2048 ELSE 0)
      + (IF (u \div 16384) % 2 = 0 THEN 16384 ELSE 0) + (IF (u \div 32768) % 2 = 0 THEN 32768 ELSE 0)

\* C16: for a buffer that ends before offset 11 or 12 the decoded tablet mask is
\* 0xFFFF, with no bound button reading as pressed; for any other buffer it is
\* (byte[12] << 8 | byte[11]) OR 0xCC00.
C16_ShortBufferAllReleased ==
    \A k \in 1..Len(hist) :
        IF Len(hist[k].data) <= TABLET_BUTTONS_HIGH
        THEN /\ hist[k].s.tablet = 65535
             /\ \A i \in BoundTabletIds : ~MaskPressed(hist[k].s.tablet, i)
        ELSE hist[k].s.tablet = OrSentinel(ByteAt(hist[k].data, 12) * 256 + ByteAt(hist[k].data, 11))

\* C17: for every 64-byte buffer, x is the 16-bit big-endian two's-complement value
\* of bytes 1-2 and y that of bytes 3-4 (both in -32768..32767), the pressure is the
\* 16-bit big-endian unsigned value of bytes 5-6 (in 0..65535), the pen code is
\* byte 9, and the tablet mask is (byte[12] << 8 | byte[11]) OR 0xCC00; a decoding
\* step leaves the buffer and every field of the dispatcher as they were.
C17_DecoderFields ==
    /\ [](\A k \in 1..Len(hist) :
            (hist[k].op = "report" /\ Len(hist[k].data) = 64) =>
                /\ hist[k].s.x = BigEndianSigned(hist[k].data, 1)
                /\ hist[k].s.y = BigEndianSigned(hist[k].data, 3)
                /\ hist[k].s.x \in (0 - 32768)..32767
                /\ hist[k].s.y \in (0 - 32768)..32767
                /\ hist[k].s.p = BigEndian(hist[k].data, 5)
                /\ hist[k].s.p \in 0..65535
                /\ hist[k].s.pen = ByteAt(hist[k].data, 9)
                /\ hist[k].s.tablet
                      = OrSentinel(ByteAt(hist[k].data, 12) * 256 + ByteAt(hist[k].data, 11)))
    /\ [][ hist' # hist => UNCHANGED << data, config, DispatcherVars, physical_device, out >> ]_vars

\* a 64-byte buffer decoded to x = -32768, y = 128, pressure 65534, pen code 200
\* and the mask 0xDE34 (0x1234 OR 0xCC00)
C17_Witness ==
    /\ Len(hist) = 1
    /\ hist[1].op = "report"
    /\ Len(data) = 64
    /\ hist[1].s = Sample(0 - 32768, 128, 65534, 200, 56884)

----------------------------------------------------------------------------
(* Reconnection: the tablet unplugged and plugged in again between reports *)

\* an initialization whose detach, reset and mode switch fail: the interface is
\* claimed and reports arrive all the same
Replugged == InitOutcome(FALSE, TRUE, TRUE, FALSE, FALSE)

\* a connection initializes unlike the one the last report came over, so that the
\* handle a report was read from tells the connections apart
LinkOutcomes ==
    IF hist = << >> \/ hist[Len(hist)].link = Replugged THEN {AllOk} ELSE {Replugged}

ReconnectSamples == {IdleSample, TouchSample, StripTouchSample}

NextReconnect ==
    \/ LoopCheck
    \/ Connect(LinkOutcomes)
    \/ ReadDispatch(ReconnectSamples, {NoFailure}, MaxSamples)
    \/ ReadError

SpecReconnect == InitWith({DefaultConfig}) /\ [][NextReconnect]_vars

\* the k-th report is the first one read after a reconnection
AfterReconnect(k) == k > 1 /\ hist[k].link # hist[k - 1].link

\* C19: the step that drops the device and the step that opens it again leave
\* every field of the dispatcher unchanged (last tablet mask, last pen code, latched
\* media index, smoothed position, touching flag), and the first report after a
\* reconnection is compared with the last report dispatched before it: a tablet
\* button held then and released now is RELEASED, one held then and now is HOLD.
C19_ReconnectKeepsDispatcher ==
    /\ [][ physical_device'.present # physical_device.present => UNCHANGED DispatcherVars ]_vars
    /\ [](\A k \in 1..Len(hist) :
            AfterReconnect(k) =>
                /\ OnDevice(hist[k].ev, "virtual_keyboard")
                      = TableEventsAll(hist[k - 1].s.tablet, hist[k].s.tablet)
                        \o << SynReport("virtual_keyboard") >>
                /\ MaskPressed(hist[k - 1].s.tablet, 0) =>
                      KeysOf(OnDevice(hist[k].ev, "virtual_keyboard"))
                        = << Ev("virtual_keyboard", "KEY", "KEY_TAB",
                                IF MaskPressed(hist[k].s.tablet, 0) THEN HOLD ELSE RELEASED) >>)

\* three reports, each over a connection of its own: tablet button 0 held, still
\* held after the first reconnection (HOLD), released after the second (RELEASED)
C19_Witness ==
    /\ Len(hist) = 3
    /\ hist[1].s = TouchSample
    /\ AfterReconnect(2)
    /\ hist[2].s = TouchSample
    /\ KeysOf(OnDevice(hist[2].ev, "virtual_keyboard"))
          = << Ev("virtual_keyboard", "KEY", "KEY_TAB", HOLD) >>
    /\ AfterReconnect(3)
    /\ hist[3].s = IdleSample
    /\ KeysOf(OnDevice(hist[3].ev, "virtual_keyboard"))
          = << Ev("virtual_keyboard", "KEY", "KEY_TAB", RELEASED) >>

----------------------------------------------------------------------------
(* Flushes: every device that was written a key gets its SYN_REPORT        *)

\* the n-th event of the k-th dispatch is followed by a SYN_REPORT written to the
\* same device before the iteration ends
FlushedLater(k, n) ==
    \E m \in (n + 1)..Len(hist[k].ev) :
        /\ hist[k].ev[m].dev = hist[k].ev[n].dev
        /\ hist[k].ev[m].type = "SYN"

\* C21: every key event written to the pen, the tablet keyboard or the media
\* keyboard while a report is dispatched is followed, before the iteration ends and
\* so before the next read, by a SYN_REPORT written to the same device; a media key
\* PRESSED or RELEASED is followed by a SYN_REPORT on the media keyboard.
C21_KeysAreFlushed ==
    \A k \in 1..Len(hist) :
        \A n \in 1..Len(hist[k].ev) :
            hist[k].ev[n].type = "KEY" => FlushedLater(k, n)

----------------------------------------------------------------------------
(* Pairing of the events over a whole run of reports *)

RECURSIVE EventsUpTo(_)
\* everything written by the first k dispatches, in order
EventsUpTo(k) == IF k = 0 THEN << >> ELSE EventsUpTo(k - 1) \o hist[k].ev

\* the BTN_TOUCH events written to the pen so far
TouchEvents ==
    SelectSeq(EventsUpTo(Len(hist)), LAMBDA e : e.dev = "virtual_pen" /\ e.code = "BTN_TOUCH")

\* the raw y of the report at which the touch ending at the k-th report began
RECURSIVE TouchBeganY(_)
TouchBeganY(k) == IF WasTouching(k - 1) THEN TouchBeganY(k - 1) ELSE hist[k - 1].s.y

\* C22: the BTN_TOUCH events of the pen alternate PRESSED, RELEASED, PRESSED, ...
\* over any run of reports; the report that ends a touch begun on the drawing
\* surface writes BTN_TOUCH RELEASED wherever the pen is then, and the report that
\* ends a touch begun inside the strip writes no BTN_TOUCH.
C22_TouchAlternates ==
    /\ \A n \in 1..Len(TouchEvents) :
          TouchEvents[n].value = IF n % 2 = 1 THEN PRESSED ELSE RELEASED
    /\ \A k \in 1..Len(hist) :
          TouchUp(k) =>
              SelectSeq(hist[k].ev, LAMBDA e : e.code = "BTN_TOUCH")
                = IF TouchBeganY(k) >= 0
                  THEN << Ev("virtual_pen", "KEY", "BTN_TOUCH", RELEASED) >>
                  ELSE << >>

\* the key events written to the media keyboard so far
MediaEvents == KeysOf(OnDevice(EventsUpTo(Len(hist)), "media_keyboard"))

\* the n-th event of a sequence answers a PRESSED of the same key, written earlier
\* and not answered since
Outstanding(events, n) ==
    \E m \in 1..(n - 1) :
        /\ events[m].code = events[n].code
        /\ events[m].value = PRESSED
        /\ \A j \in (m + 1)..(n - 1) : events[j].code # events[n].code

\* C23: a media key is written as RELEASED only while a PRESSED of the same key is
\* outstanding; a touch-down outside the strip writes nothing to the media keyboard,
\* and nothing is written for the initial latched index 0 before the first
\* touch-down inside the strip.
C23_MediaReleaseIsPaired ==
    /\ \A n \in 1..Len(MediaEvents) :
          MediaEvents[n].value = RELEASED => Outstanding(MediaEvents, n)
    /\ \A k \in 1..Len(hist) :
          (hist[k].s.y >= 0 /\ ~WasTouching(k) /\ hist[k].touching)
              => OnDevice(hist[k].ev, "media_keyboard") = << >>
    /\ \A k \in 1..Len(hist) :
          (\A j \in 1..k : ~TouchDownInStrip(j))
              => OnDevice(hist[k].ev, "media_keyboard") = << >>

\* the stylus-button events written to the pen so far
StylusEvents == PenButtonKeys(EventsUpTo(Len(hist)))

\* the n-th event follows a PRESSED of the same key with no RELEASED of it since
HeldSince(events, n) ==
    \E m \in 1..(n - 1) :
        /\ events[m].code = events[n].code
        /\ events[m].value = PRESSED
        /\ \A j \in (m + 1)..(n - 1) :
              ~(events[j].code = events[n].code /\ events[j].value = RELEASED)

\* C24: over any run of pen-button codes, the previous code being 0 at first, a HOLD
\* or a RELEASED of a stylus button follows a PRESSED of the same button with no
\* RELEASED of it in between, and a button that was PRESSED is RELEASED before any
\* event of the other button.
C24_StylusEventsArePaired ==
    /\ \A n \in 1..Len(StylusEvents) :
          StylusEvents[n].value \in {HOLD, RELEASED} => HeldSince(StylusEvents, n)
    /\ \A n \in 1..Len(StylusEvents) : \A m \in 1..(n - 1) :
          (StylusEvents[m].value = PRESSED /\ StylusEvents[m].code # StylusEvents[n].code)
              => \E j \in (m + 1)..(n - 1) :
                    /\ StylusEvents[j].code = StylusEvents[m].code
                    /\ StylusEvents[j].value = RELEASED

----------------------------------------------------------------------------
(* Configurations the settings editor saves: threshold 0..2048 in steps of *)
(* 10, sensitivity 0.1..10.0 in steps of 0.1                               *)

\* 0.1, 0.5 and 10.0 as f32
F32_0_1 == [m |-> 13421773, e |-> -27]
F32_0_5 == [m |-> 8388608, e |-> -24]
F32_10 == [m |-> 10485760, e |-> -20]

\* the ends of both sliders, the defaults, and 0.5
EditorConfigs ==
    {AppConfig(th, se) : th \in {0, 10, 510, 2040},
                         se \in {F32_0_1, F32_0_5, F32FromInt(5), F32_10}}

\* v = 2000 - raw: 2000, 511, 510, 11, 10, 9, 1, 0, -1, -63535
EditorPressures == {0, 1489, 1490, 1989, 1990, 1991, 1999, 2000, 2001, 65535}

EditorSamples == {Sample(2047, 2047, p, 2, AllReleased) : p \in EditorPressures}

NextEditor ==
    \/ LoopCheck
    \/ Connect({AllOk})
    \/ ReadDispatch(EditorSamples, {NoFailure}, MaxLoopSamples)

\* the driver started on a configuration the editor saved
SpecEditor == InitWith(EditorConfigs) /\ [][NextEditor]_vars

\* C25: under every configuration the editor can save and for every raw pressure,
\* a report leaves the pen touching exactly when 2000 - raw is above the
\* threshold; a report above the threshold is never left not touching.
C25_TouchingIffAboveThreshold ==
    \A k \in 1..Len(hist) :
        hist[k].touching = (2000 - hist[k].s.p > hist[k].cfg.pressure_threshold)

====
